---- MODULE Spec2Model ----
(***************************************************************************)
(* State-machine model of the player glue script (saly0781/artPlayerJs):   *)
(* rendition selection, the continue-watching store kept in localStorage,  *)
(* the merge of saved and fresh episode data, the ad regions, and a player *)
(* session (start-up, episode switches, quality clicks, position samples). *)
(*                                                                         *)
(* The repository holds several revisions of the same script.  The fullest *)
(* one is src/unnamed/part_002; where a revision differs in the logic      *)
(* modelled here, the operator takes the revision as a parameter.          *)
(***************************************************************************)
EXTENDS Integers, Sequences, FiniteSets, TLC

VARIABLES
    revision,             \* which revision of the script is running
    userPreferredQuality, \* localStorage['userPreferredQuality']
    continuewatching,     \* localStorage['continuewatching']
    call,                 \* the call or event under examination: its arguments and its result
    upsertOrder,          \* history: movieIds by their last upsert, latest first
    steps,                \* number of operations performed so far
    phase,                \* how far initializeApp and the player have come
    seriesData,           \* the episodes the backend delivered, seasons flattened
    currentMovieData,     \* the active episode record
    currentIndex,         \* the entry of seriesData that currentMovieData is, 0 for a copy
    activeQuality,        \* the quality in use for playback
    buttons,              \* class of each quality button: "active", "disabled" or ""
    switchQualityPending, \* art.switchQuality promises not settled yet
    switchUrlPending,     \* number of art.switchUrl promises not settled yet
    lockOverlayShown_,    \* the subscription overlay is up
    movieRemoved,         \* the handler already removed the record as finished
    lastSaveTime,         \* Date.now() of the last periodic progress save, in seconds
    now,                  \* Date.now(), in seconds
    videoPlayedOnce,      \* a position sample has been handled
    nextEpisodeCardShown, \* window.nextEpisodeCardShown
    nextEpisodeCountdownTimer, \* the countdownValue of the next-episode timer, or NoTimer
    videoType,            \* the global videoType the selector sets
    artType,              \* the type the player was constructed with
    artDuration,          \* art.duration of the video the player was handed last
    adPlugin,             \* art.plugins.artplayerPluginAds is installed
    adShowing,            \* the plugin has an ad on screen
    isAdPlaying,          \* the script's flag: an ad is playing
    preAdShown,           \* the script's flag of the region preLoll
    midAdShown,           \* the script's flag of the region midLoll
    postAdShown,          \* the script's flag of the region postLoll
    pendingAdType,        \* the ad type a countdown is pending for
    currentAdRegion,      \* the region of the pending countdown
    adCountdownInterval,  \* window.adCountdownInterval: a timer id, or NoTimer
    timers,               \* the live interval timers of ad countdowns, by id
    adStarts,             \* history: ads started per type since the active record changed
    quotaExceeded         \* environment: localStorage.setItem throws

\* The state of one player session.
\* What the player was told to play.
widgetVars == <<videoType, artType, artDuration>>

\* The ad plugin, the script's ad flags and the countdown timers.
adVars ==
    <<adPlugin, adShowing, isAdPlaying, preAdShown, midAdShown, postAdShown,
      pendingAdType, currentAdRegion, adCountdownInterval, timers, adStarts>>

\* The script's own record of the session.
scriptVars ==
    <<phase, seriesData, currentMovieData, currentIndex, activeQuality, buttons,
      switchQualityPending, switchUrlPending, lockOverlayShown_, movieRemoved,
      lastSaveTime, now, videoPlayedOnce>>

\* The next-episode card and its countdown.
nextVars == <<nextEpisodeCardShown, nextEpisodeCountdownTimer>>

sessionVars == <<scriptVars, widgetVars, adVars, nextVars, quotaExceeded>>

vars ==
    <<revision, userPreferredQuality, continuewatching, call, upsertOrder, steps,
      sessionVars>>

-----------------------------------------------------------------------------
(* JavaScript values *)

\* null / undefined / a missing property where a string is expected.
NULL == "<null>"

\* JavaScript truthiness of a string-or-null value.
Truthy(v) == v # NULL /\ v # ""

\* String.prototype.includes
Includes(s, sub) ==
    \E i \in 1..(Len(s) - Len(sub) + 1) : SubSeq(s, i, i + Len(sub) - 1) = sub

UpperCaseLetters == "ABCDEFGHIJKLMNOPQRSTUVWXYZ"
LowerCaseLetters == "abcdefghijklmnopqrstuvwxyz"

LowerChar(c) ==
    IF \E i \in 1..26 : SubSeq(UpperCaseLetters, i, i) = c
    THEN LET i == CHOOSE j \in 1..26 : SubSeq(UpperCaseLetters, j, j) = c
         IN  SubSeq(LowerCaseLetters, i, i)
    ELSE c

\* String.prototype.toLowerCase
RECURSIVE toLowerCase(_)
toLowerCase(s) ==
    IF Len(s) = 0 THEN ""
    ELSE LowerChar(SubSeq(s, 1, 1)) \o toLowerCase(SubSeq(s, 2, Len(s)))

\* obj[key], undefined when the property is missing
Get(obj, key) == IF key \in DOMAIN obj THEN obj[key] ELSE NULL

-----------------------------------------------------------------------------
(* Quality preference in localStorage *)

Qualities == {"hd", "mid", "low"}

\* getUserQualityPreference: anything but the three tiers reads as null.
getUserQualityPreference(stored) ==
    IF stored \in Qualities THEN stored ELSE NULL

saveUserQualityPreference_dropped(stored, quality) == stored

\* saveUserQualityPreference: the new content of the key; anything but the
\* three tiers is refused.
saveUserQualityPreference(stored, quality) ==
    IF quality \in Qualities THEN quality ELSE stored

-----------------------------------------------------------------------------
(* determinePlaybackQualityAndUrl *)

Revisions == {"part_000", "part_001", "part_002"}

qualityOrder_reversed == <<"low", "mid", "hd">>

qualityOrder == <<"hd", "mid", "low">>

\* `${quality}Video`
UrlKey(quality) == quality \o "Video"

IsValidUrl_truthyOnly(url) == Truthy(url)

\* url && !url.includes('not found')
IsValidUrl(url) == Truthy(url) /\ ~Includes(url, "not found")

\* The tier tried first when there is no preference: 'mid', and 'low' in part_000.
DefaultQuality(rev) == IF rev = "part_000" THEN "low" ELSE "mid"

\* The tier the no-preference loop skips ("continue; // Already checked"):
\* 'mid' in every revision, part_000 included.
SkippedQuality(rev) == "mid"

\* for (const quality of order) { if valid { select; break } }
FirstValid(videoData, order) ==
    LET hits == {i \in 1..Len(order) : IsValidUrl(Get(videoData, UrlKey(order[i])))}
    IN  IF hits = {} THEN [url |-> NULL, quality |-> NULL]
        ELSE LET i == CHOOSE j \in hits : \A k \in hits : j <= k
             IN  [url |-> videoData[UrlKey(order[i])], quality |-> order[i]]

\* The function's return value null.
NoPlaybackInfo == [url |-> NULL, quality |-> NULL]

NotSkipped(rev, q) == q # SkippedQuality(rev)

OrderWithoutSkipped(rev) ==
    SelectSeq(qualityOrder, LAMBDA q : NotSkipped(rev, q))

\* selectedUrl / selectedQuality as the branches leave them
Selected(rev, movieData, preferredQuality) ==
    LET videoData == movieData.video IN
    IF Truthy(preferredQuality)
    THEN LET preferredUrl == Get(videoData, UrlKey(preferredQuality)) IN
         IF IsValidUrl(preferredUrl)
         THEN [url |-> preferredUrl, quality |-> preferredQuality]
         ELSE FirstValid(videoData, qualityOrder)
    ELSE LET defaultUrl == Get(videoData, UrlKey(DefaultQuality(rev))) IN
         IF IsValidUrl(defaultUrl)
         THEN [url |-> defaultUrl, quality |-> DefaultQuality(rev)]
         ELSE FirstValid(videoData, OrderWithoutSkipped(rev))

determinePlaybackQualityAndUrl(rev, movieData, preferredQuality) ==
    IF "video" \notin DOMAIN movieData THEN NoPlaybackInfo
    ELSE LET sel == Selected(rev, movieData, preferredQuality) IN
         IF Truthy(sel.url) /\ Truthy(sel.quality) THEN sel ELSE NoPlaybackInfo

\* The global videoType assigned from the selected URL (part_000 and part_002;
\* part_001 has no such global).  selectedUrl is NULL when nothing was selected.
inferVideoType(rev, selectedUrl) ==
    IF ~Truthy(selectedUrl) THEN "m3u8"
    ELSE LET lowerSelectedUrl == toLowerCase(selectedUrl) IN
         IF Includes(lowerSelectedUrl, ".m3u8") \/ Includes(lowerSelectedUrl, ".rebacdn1")
         THEN "m3u8"
         ELSE IF Includes(lowerSelectedUrl, ".mpd") \/ Includes(lowerSelectedUrl, ".rebacdn2")
         THEN "mpd"
         ELSE IF rev = "part_000" THEN "" ELSE "m3u8"

\* The global videoType after determinePlaybackQualityAndUrl(movieData,
\* preferredQuality), current its value before the call.
videoTypeAfter(rev, current, movieData, preferredQuality) ==
    IF rev = "part_001" THEN current
    ELSE IF "video" \notin DOMAIN movieData THEN "m3u8"
    ELSE inferVideoType(rev, Selected(rev, movieData, preferredQuality).url)

-----------------------------------------------------------------------------
(* The continue-watching list in localStorage *)

\* NaN.  Every number of the model is >= 0, so -1 is free to stand for it.
NaN == 0 - 1

\* a > b on JavaScript numbers: false as soon as one side is NaN.
JsGreater(a, b) == a # NaN /\ b # NaN /\ a > b

\* What localStorage holds under 'continuewatching': nothing, text that is
\* not JSON, JSON that is not an array, or the JSON of an array of records.
AbsentStorage == [kind |-> "absent"]
CorruptStorage == [kind |-> "corrupt"]
NonArrayStorage == [kind |-> "nonarray"]
ArrayStorage(items) == [kind |-> "array", items |-> items]

\* getContinueWatchingList: the parsed array, [] for anything else.
getContinueWatchingList(storage) ==
    IF storage.kind = "array" THEN storage.items ELSE <<>>

MaxEntries == 15

\* const dataToStore = { ...episodeData }; delete dataToStore.video;
dataToStore_withVideo(episodeData) == episodeData

dataToStore(episodeData) ==
    [f \in (DOMAIN episodeData) \ {"video"} |-> episodeData[f]]

\* !episodeData.movieId: a missing id, and the id 0, are falsy.
HasMovieId(episodeData) ==
    "movieId" \in DOMAIN episodeData /\ episodeData.movieId # 0

findIndex_notFound(list, id) == 0

\* list.findIndex(item => item.movieId === id); 0 stands for -1.
findIndex(list, id) ==
    LET hits == {i \in 1..Len(list) : list[i].movieId = id}
    IN  IF hits = {} THEN 0 ELSE CHOOSE i \in hits : \A j \in hits : i <= j

Truncate_keepAll(list) == list

\* if (list.length > 15) list = list.slice(0, 15)
Truncate(list) ==
    IF Len(list) > MaxEntries THEN SubSeq(list, 1, MaxEntries) ELSE list

\* list[existingIndex] = item when found, list.unshift(item) otherwise
Place(list, existingIndex, item) ==
    IF existingIndex > 0 THEN [list EXCEPT ![existingIndex] = item]
    ELSE <<item>> \o list

\* saveEpisodeProgress: the new content of the storage key.
saveEpisodeProgress(storage, episodeData) ==
    IF ~HasMovieId(episodeData) THEN storage
    ELSE LET list == getContinueWatchingList(storage)
             existingIndex == findIndex(list, episodeData.movieId)
         IN  ArrayStorage(Truncate(Place(list, existingIndex, dataToStore(episodeData))))

\* removeEpisodeProgress: the new content of the storage key.
removeEpisodeProgress(storage, movieId) ==
    ArrayStorage(SelectSeq(getContinueWatchingList(storage),
                           LAMBDA item : item.movieId # movieId))

\* getSavedEpisode: the first record with that movieId; NoEpisode stands for null.
NoEpisode == [movieId |-> 0]

getSavedEpisode(storage, movieId) ==
    LET list == getContinueWatchingList(storage)
        i == findIndex(list, movieId)
    IN  IF i > 0 THEN list[i] ELSE NoEpisode

-----------------------------------------------------------------------------
(* cleanupCompletedMovies *)

DecimalDigits == "0123456789"

IsDigit(c) == \E i \in 1..10 : SubSeq(DecimalDigits, i, i) = c

DigitValue(c) == (CHOOSE i \in 1..10 : SubSeq(DecimalDigits, i, i) = c) - 1

RECURSIVE ParseDigits(_, _)
ParseDigits(s, acc) ==
    IF Len(s) = 0 \/ ~IsDigit(SubSeq(s, 1, 1)) THEN acc
    ELSE ParseDigits(SubSeq(s, 2, Len(s)), acc * 10 + DigitValue(SubSeq(s, 1, 1)))

\* parseInt(s, 10) on strings without sign or leading blanks: the value of the
\* leading run of digits, NaN when the string does not start with a digit.
parseInt(s) ==
    IF Len(s) = 0 \/ ~IsDigit(SubSeq(s, 1, 1)) THEN NaN ELSE ParseDigits(s, 0)

\* item.time?.endTime ? parseInt(item.time.endTime, 10) : null
\* (null is falsy like NaN and is used for nothing else, so NaN stands for it)
ItemEndTime(item) ==
    IF "time" \in DOMAIN item /\ Truthy(Get(item.time, "endTime"))
    THEN parseInt(item.time.endTime)
    ELSE NaN

\* !item.continueWatching || typeof item.continueWatching.inPercentage !== 'number'
MissingProgress(item) ==
    \/ "continueWatching" \notin DOMAIN item
    \/ "inPercentage" \notin DOMAIN item.continueWatching

CompletionPercent == 90

isOverNinetyPercent_atLeast(item) ==
    item.continueWatching.inPercentage >= CompletionPercent

\* percentage > 90
isOverNinetyPercent(item) ==
    JsGreater(item.continueWatching.inPercentage, CompletionPercent)

\* endTime && watchedMinutes > endTime, with watchedMinutes = inMinutes || 0
isWatchedPastEndTime(item) ==
    LET watchedMinutes == IF "inMinutes" \in DOMAIN item.continueWatching
                          THEN item.continueWatching.inMinutes ELSE 0
        endTime == ItemEndTime(item)
    IN  endTime # NaN /\ endTime # 0 /\ JsGreater(watchedMinutes, endTime)

\* partName && partName.toLowerCase().includes('final')
isFinalPart(item) ==
    /\ Truthy(Get(item, "partName"))
    /\ Includes(toLowerCase(item.partName), "final")

\* The callback given to filter: TRUE keeps the item.
KeepItem(item) ==
    IF MissingProgress(item) THEN TRUE
    ELSE LET type == Get(item, "type")
             done == isOverNinetyPercent(item) \/ isWatchedPastEndTime(item)
         IN  IF type = "M" /\ done THEN FALSE
             ELSE IF type = "S" /\ isFinalPart(item) /\ done THEN FALSE
             ELSE IF type = "S" /\ done THEN FALSE
             ELSE TRUE

\* cleanupCompletedMovies: the new content of the storage key.  Absent,
\* unparsable and non-array content is left as it is; the filtered list is
\* written only when something was removed.
cleanupCompletedMovies(storage) ==
    IF storage.kind # "array" THEN storage
    ELSE LET filteredList == SelectSeq(storage.items, KeepItem)
         IN  IF Len(storage.items) - Len(filteredList) > 0
             THEN ArrayStorage(filteredList)
             ELSE storage

-----------------------------------------------------------------------------
(* mergeSavedWithFreshEpisode *)

ZeroProgress == [inMinutes |-> 0, inPercentage |-> 0]

mergeSavedWithFreshEpisode_freshOnly(savedEpisode, freshEpisode) == freshEpisode

\* NoEpisode stands for a null argument.
mergeSavedWithFreshEpisode(savedEpisode, freshEpisode) ==
    IF savedEpisode = NoEpisode \/ freshEpisode = NoEpisode THEN freshEpisode
    ELSE LET preservedContinueWatching ==
                 IF "continueWatching" \in DOMAIN savedEpisode
                 THEN savedEpisode.continueWatching
                 ELSE ZeroProgress
         IN  [f \in (DOMAIN freshEpisode) \cup {"continueWatching"} |->
                 IF f = "continueWatching" THEN preservedContinueWatching
                 ELSE freshEpisode[f]]

-----------------------------------------------------------------------------
(* getCurrentAdRegion *)

\* A percentage is held in units of 1/PercentScale percent, NaN apart.
PercentScale == 10

PreLollFrom == 19
PreLollBefore == 49
MidLollFrom == 55
MidLollTo == 75
PostLollFrom == 81
PostLollTo == 100

AtLeast(percentage, bound) == percentage # NaN /\ percentage >= bound * PercentScale
AtMost(percentage, bound) == percentage # NaN /\ percentage <= bound * PercentScale
Below(percentage, bound) == percentage # NaN /\ percentage < bound * PercentScale

NoRegion == "none"

getCurrentAdRegion_closedPreLoll(percentage) ==
    IF AtLeast(percentage, PreLollFrom) /\ AtMost(percentage, PreLollBefore) THEN "preLoll"
    ELSE IF AtLeast(percentage, MidLollFrom) /\ AtMost(percentage, MidLollTo) THEN "midLoll"
    ELSE IF AtLeast(percentage, PostLollFrom) /\ AtMost(percentage, PostLollTo) THEN "postLoll"
    ELSE NoRegion

getCurrentAdRegion(percentage) ==
    IF AtLeast(percentage, PreLollFrom) /\ Below(percentage, PreLollBefore) THEN "preLoll"
    ELSE IF AtLeast(percentage, MidLollFrom) /\ AtMost(percentage, MidLollTo) THEN "midLoll"
    ELSE IF AtLeast(percentage, PostLollFrom) /\ AtMost(percentage, PostLollTo) THEN "postLoll"
    ELSE NoRegion

-----------------------------------------------------------------------------
(* Episode records *)

Progress(inMinutes, inPercentage) ==
    [inMinutes |-> inMinutes, inPercentage |-> inPercentage]

PlayableVideo == [hdVideo |-> "h.m3u8", midVideo |-> "m.mpd", lowVideo |-> "l.rebacdn1"]

\* An episode as the backend delivers it.
ApiEpisode(movieId, episodeId, progress) ==
    [movieId |-> movieId, episodeId |-> episodeId, type |-> "S", partName |-> "Part 1",
     isSeason |-> TRUE, time |-> [startTime |-> "0", endTime |-> "95"], locked |-> FALSE,
     continueWatching |-> progress, video |-> PlayableVideo]

\* window.adCountdownInterval = null
NoTimer == 0

\* The ad types with a region of their own.
AdTypes == {"preLoll", "midLoll", "postLoll"}

NoAdStarts == [adType \in AdTypes |-> 0]

\* The ad state initializeApp starts with; no timer exists.
NoAds ==
    /\ adShowing = FALSE
    /\ isAdPlaying = FALSE
    /\ preAdShown = FALSE /\ midAdShown = FALSE /\ postAdShown = FALSE
    /\ pendingAdType = NULL /\ currentAdRegion = NULL
    /\ adCountdownInterval = NoTimer
    /\ timers = {}
    /\ adStarts = NoAdStarts

\* The variables a specification does not use.
IdleSelection == revision = "part_002" /\ userPreferredQuality = NULL
IdleStore == continuewatching = AbsentStorage /\ upsertOrder = <<>> /\ steps = 0

\* No session is running: the values of the session's variables.
IdleSession ==
    /\ phase = "idle"
    /\ seriesData = <<>>
    /\ currentMovieData = NoEpisode
    /\ currentIndex = 0
    /\ activeQuality = ""
    /\ buttons = [q \in Qualities |-> ""]
    /\ switchQualityPending = {}
    /\ switchUrlPending = 0
    /\ lockOverlayShown_ = FALSE
    /\ movieRemoved = FALSE
    /\ lastSaveTime = 0
    /\ now = 0
    /\ videoPlayedOnce = FALSE
    /\ nextEpisodeCardShown = FALSE /\ nextEpisodeCountdownTimer = 0
    /\ videoType = "m3u8" /\ artType = NULL /\ artDuration = 0
    /\ adPlugin = FALSE /\ NoAds
    /\ quotaExceeded = FALSE

-----------------------------------------------------------------------------
(* Rendition selection examined on its own: every record over a small pool *)
(* of URL values, every stored preference, every revision.                 *)

UrlPool == {NULL, "", "not found", "h.m3u8", "m.mpd", "l.rebacdn1", "x not found.m3u8"}

VideoDatas == [hdVideo : UrlPool, midVideo : UrlPool, lowVideo : UrlPool]

\* An episode as the selector sees it: with or without its video object.
SelectRecords == {[movieId |-> "m1"]} \cup {[movieId |-> "m1", video |-> v] : v \in VideoDatas}

\* What localStorage may hold under the preference key.
StoredPreferences == Qualities \cup {NULL, "4k"}

InitSelect ==
    /\ IdleSession
    /\ revision \in Revisions
    /\ userPreferredQuality \in StoredPreferences
    /\ continuewatching = AbsentStorage
    /\ upsertOrder = <<>>
    /\ steps = 0
    /\ \E md \in SelectRecords, q \in Qualities \cup {NULL} :
          call = [op |-> "select", movieData |-> md, preferredQuality |-> q,
                  done |-> FALSE, info |-> NoPlaybackInfo, storedBefore |-> NULL]

\* determinePlaybackQualityAndUrl(movieData, preferredQuality)
SelectPlayback ==
    /\ call.op = "select" /\ ~call.done
    /\ call' = [call EXCEPT !.done = TRUE,
                            !.storedBefore = userPreferredQuality,
                            !.info = determinePlaybackQualityAndUrl(
                                         revision, call.movieData, call.preferredQuality)]
    /\ UNCHANGED <<revision, userPreferredQuality, continuewatching, upsertOrder, steps, sessionVars>>

NextSelect == SelectPlayback

SpecSelect == InitSelect /\ [][NextSelect]_vars

-----------------------------------------------------------------------------
(* The type inference examined on its own, in the revisions that have the   *)
(* global videoType: URLs in either case, with an extension, a CDN marker,  *)
(* both or neither.                                                         *)

TypeUrls ==
    {host \o ext : host \in {"v", "V", "c.rebacdn1/v", "c.REBACDN2/v", "c.rebacdn2/v"},
                   ext \in {"", ".m3u8", ".M3U8", ".mpd", ".Mpd", ".mp4", " not found"}}

\* Records whose three tiers hold the same URL, and a record without video.
TypeRecords ==
    {[movieId |-> "m1"]}
    \cup {[movieId |-> "m1", video |-> [hdVideo |-> u, midVideo |-> u, lowVideo |-> u]] :
             u \in TypeUrls}

InitType ==
    /\ IdleStore /\ IdleSession
    /\ revision \in {"part_000", "part_002"}
    /\ userPreferredQuality = NULL
    /\ \E md \in TypeRecords, q \in {NULL, "hd"} :
          call = [op |-> "determine", movieData |-> md, preferredQuality |-> q,
                  done |-> FALSE, info |-> NoPlaybackInfo]

\* determinePlaybackQualityAndUrl(movieData, preferredQuality) and the global
\* it assigns.
DetermineType ==
    /\ call.op = "determine" /\ ~call.done
    /\ call' = [call EXCEPT
                   !.done = TRUE,
                   !.info = determinePlaybackQualityAndUrl(
                                revision, call.movieData, call.preferredQuality)]
    /\ videoType' = videoTypeAfter(revision, videoType, call.movieData, call.preferredQuality)
    /\ UNCHANGED <<revision, userPreferredQuality, continuewatching, upsertOrder, steps,
                   scriptVars, artType, artDuration, adVars, nextVars, quotaExceeded>>

NextType == DetermineType

SpecType == InitType /\ [][NextType]_vars

-----------------------------------------------------------------------------
(* The ad region examined on its own: every percentage from 0 to MaxPercent  *)
(* in steps of 1/PercentScale, and NaN (the duration is not known yet).      *)

MaxPercent == 102

Percentages == (0..(MaxPercent * PercentScale)) \cup {NaN}

InitRegion ==
    /\ IdleSelection /\ IdleStore /\ IdleSession
    /\ \E p \in Percentages :
          call = [op |-> "region", percentage |-> p, done |-> FALSE, region |-> NoRegion]

RegionFor ==
    /\ call.op = "region" /\ ~call.done
    /\ call' = [call EXCEPT !.done = TRUE, !.region = getCurrentAdRegion(call.percentage)]
    /\ UNCHANGED <<revision, userPreferredQuality, continuewatching, upsertOrder, steps, sessionVars>>

NextRegion == RegionFor

SpecRegion == InitRegion /\ [][NextRegion]_vars

-----------------------------------------------------------------------------
(* The merge examined on its own *)

MergeProgresses == {Progress(0, 0), Progress(30, 40)}

\* Saved records: null, or a record without video, with or without progress.
SavedEpisodes ==
    {NoEpisode}
    \cup {dataToStore(ApiEpisode(1, e, pr)) : e \in {1, 2}, pr \in MergeProgresses}
    \cup {[movieId |-> 1, episodeId |-> e, type |-> "S", locked |-> l] :
             e \in {1, 2}, l \in BOOLEAN}

\* Fresh records: with video; the backend may or may not send progress.
FreshEpisodes ==
    {[ApiEpisode(1, e, pr) EXCEPT !.locked = l] :
        e \in {1, 2}, pr \in MergeProgresses, l \in BOOLEAN}
    \cup {[movieId |-> 1, episodeId |-> e, type |-> "S", locked |-> l, video |-> PlayableVideo] :
             e \in {1, 2}, l \in BOOLEAN}

InitMerge ==
    /\ IdleSelection /\ IdleStore /\ IdleSession
    /\ \E sv \in SavedEpisodes, fr \in FreshEpisodes :
          call = [op |-> "merge", saved |-> sv, fresh |-> fr, done |-> FALSE,
                  merged |-> NoEpisode]

Merge ==
    /\ call.op = "merge" /\ ~call.done
    /\ call' = [call EXCEPT !.done = TRUE,
                            !.merged = mergeSavedWithFreshEpisode(call.saved, call.fresh)]
    /\ UNCHANGED <<revision, userPreferredQuality, continuewatching, upsertOrder, steps, sessionVars>>

NextMerge == Merge

SpecMerge == InitMerge /\ [][NextMerge]_vars

-----------------------------------------------------------------------------
(* The cleanup examined on its own: every list of up to MaxCleanupLen stored *)
(* records over the cases of progress, end time and kind below.              *)

MaxCleanupLen == 2

CleanupProgressCases ==
    {[has |-> FALSE],
     [has |-> TRUE, cw |-> [inMinutes |-> 45]],
     [has |-> TRUE, cw |-> [inPercentage |-> 95]],
     [has |-> TRUE, cw |-> Progress(5, 90)],
     [has |-> TRUE, cw |-> Progress(5, 91)],
     [has |-> TRUE, cw |-> Progress(45, 50)]}

CleanupTimeCases ==
    {[has |-> FALSE],
     [has |-> TRUE, time |-> [startTime |-> "0", endTime |-> "30"]],
     [has |-> TRUE, time |-> [startTime |-> "0", endTime |-> "0"]],
     [has |-> TRUE, time |-> [startTime |-> "0", endTime |-> ""]]}

CleanupKindCases ==
    {[type |-> "M", partName |-> NULL],
     [type |-> "S", partName |-> "Final Part"],
     [type |-> "S", partName |-> "Part 1"]}

\* The stored record with movieId id built from one case of each.
CleanupItem(id, pc, tc, kc) ==
    LET base == [movieId |-> id, episodeId |-> id, type |-> kc.type, partName |-> kc.partName]
        fields == {"movieId", "episodeId", "type", "partName"}
                    \cup (IF pc.has THEN {"continueWatching"} ELSE {})
                    \cup (IF tc.has THEN {"time"} ELSE {})
    IN  [f \in fields |->
            IF f = "continueWatching" THEN pc.cw
            ELSE IF f = "time" THEN tc.time
            ELSE base[f]]

\* Every case of progress and end time for a film and for an ordinary part;
\* every case of progress for a final part.
CleanupItems(id) ==
    {CleanupItem(id, pc, tc, kc) :
        pc \in CleanupProgressCases, tc \in CleanupTimeCases,
        kc \in {k \in CleanupKindCases : k.partName # "Final Part"}}
    \cup {CleanupItem(id, pc, [has |-> FALSE], kc) :
        pc \in CleanupProgressCases,
        kc \in {k \in CleanupKindCases : k.partName = "Final Part"}}

\* The lists of n records with the movieIds 1..n.
RECURSIVE CleanupLists(_)
CleanupLists(n) ==
    IF n = 0 THEN {<<>>}
    ELSE {Append(l, item) : l \in CleanupLists(n - 1), item \in CleanupItems(n)}

InitCleanup ==
    /\ IdleSelection /\ IdleSession
    /\ upsertOrder = <<>> /\ steps = 0
    /\ \/ continuewatching \in {AbsentStorage, CorruptStorage, NonArrayStorage}
       \/ \E n \in 0..MaxCleanupLen : \E l \in CleanupLists(n) :
             continuewatching = ArrayStorage(l)
    /\ call = [op |-> "cleanup", done |-> FALSE, before |-> continuewatching]

Cleanup ==
    /\ call.op = "cleanup" /\ ~call.done
    /\ continuewatching' = cleanupCompletedMovies(continuewatching)
    /\ call' = [call EXCEPT !.done = TRUE]
    /\ UNCHANGED <<revision, userPreferredQuality, upsertOrder, steps, sessionVars>>

NextCleanup == Cleanup

SpecCleanup == InitCleanup /\ [][NextCleanup]_vars

-----------------------------------------------------------------------------
(* The store operations examined on their own, on lists of up to MaxEntries  *)
(* records: saveEpisodeProgress, removeEpisodeProgress and                   *)
(* cleanupCompletedMovies in any order, MaxOps operations at most.           *)

MaxOps == 3
NumNewIds == 1

\* The stored list left by earlier sessions: the movieIds n, n-1, ..., 1,
\* the latest first.
InitialIds(n) == [i \in 1..n |-> n + 1 - i]

InitialList(n) ==
    [i \in 1..n |-> dataToStore(ApiEpisode(n + 1 - i, 1, Progress(10, 20)))]

\* movieIds the operations are tried with: 0 (no id), two ids of the lower
\* end of a full list, and ids no initial list holds.
UpsertIds == {0, 1, 2} \cup ((MaxEntries + 1)..(MaxEntries + NumNewIds))

UpsertProgresses == {Progress(12, 30), Progress(38, 95)}

InitStore ==
    /\ IdleSelection /\ IdleSession
    /\ steps = 0
    /\ \E n \in 0..MaxEntries :
          /\ continuewatching = (IF n = 0 THEN AbsentStorage ELSE ArrayStorage(InitialList(n)))
          /\ upsertOrder = InitialIds(n)
    /\ call = [op |-> "none"]

\* saveEpisodeProgress(episodeData), episodeData the record of movieId with
\* the progress given.
Upsert(movieId, progress) ==
    /\ steps < MaxOps
    /\ LET episodeData == ApiEpisode(movieId, 1, progress) IN
       /\ continuewatching' = saveEpisodeProgress(continuewatching, episodeData)
       /\ upsertOrder' = IF HasMovieId(episodeData)
                         THEN <<movieId>> \o SelectSeq(upsertOrder, LAMBDA id : id # movieId)
                         ELSE upsertOrder
       /\ call' = [op |-> "upsert", episodeData |-> episodeData, before |-> continuewatching]
    /\ steps' = steps + 1
    /\ UNCHANGED <<revision, userPreferredQuality, sessionVars>>

\* removeEpisodeProgress(movieId)
Remove(movieId) ==
    /\ steps < MaxOps
    /\ continuewatching' = removeEpisodeProgress(continuewatching, movieId)
    /\ steps' = steps + 1
    /\ call' = [op |-> "remove", movieId |-> movieId, before |-> continuewatching]
    /\ UNCHANGED <<revision, userPreferredQuality, upsertOrder, sessionVars>>

\* cleanupCompletedMovies()
CleanupStore ==
    /\ steps < MaxOps
    /\ continuewatching' = cleanupCompletedMovies(continuewatching)
    /\ steps' = steps + 1
    /\ call' = [op |-> "cleanup", before |-> continuewatching]
    /\ UNCHANGED <<revision, userPreferredQuality, upsertOrder, sessionVars>>

NextStore ==
    \/ \E id \in UpsertIds, pr \in UpsertProgresses : Upsert(id, pr)
    \/ \E id \in UpsertIds \ {0} : Remove(id)
    \/ CleanupStore

SpecStore == InitStore /\ [][NextStore]_vars

-----------------------------------------------------------------------------
(* One player session of part_002: initializeApp, the player's ready       *)
(* handler, episode switches, quality clicks with their promises, and the   *)
(* position samples ('video:timeupdate').                                   *)

FullVideo == PlayableVideo
NoHdVideo == [hdVideo |-> "not found", midVideo |-> "m.mpd", lowVideo |-> "l.rebacdn1"]
NoVideo == [hdVideo |-> "not found", midVideo |-> NULL, lowVideo |-> ""]

\* An episode of the series 1; the backend sends progress with every episode.
SeriesEpisode(episodeId, video, locked) ==
    [ApiEpisode(1, episodeId, Progress(0, 0)) EXCEPT !.video = video, !.locked = locked]

\* The single record of the film 2.
Film(locked) ==
    [ApiEpisode(2, 1, Progress(0, 0)) EXCEPT !.type = "M", !.partName = NULL,
                                              !.isSeason = FALSE, !.locked = locked]

\* What the fetch may deliver: a series of four episodes (fully playable,
\* without hd, without any rendition, locked), a film, and a locked film.
Catalogs ==
    {<<SeriesEpisode(1, FullVideo, FALSE), SeriesEpisode(2, NoHdVideo, FALSE),
       SeriesEpisode(3, NoVideo, FALSE), SeriesEpisode(4, NoVideo, TRUE)>>,
     <<Film(FALSE)>>,
     <<Film(TRUE)>>}

\* The record earlier sessions stored for an episode or film.
Stored(episodeData, progress) ==
    [f \in (DOMAIN episodeData) \ {"video"} |->
        IF f = "continueWatching" THEN progress ELSE episodeData[f]]

\* What earlier sessions left under 'continuewatching': text that does not
\* parse; episode 2 of the series, a film seen to the end and the film seen
\* past its end offset; episode 3 of the series, which has no rendition.
SessionStorages ==
    {CorruptStorage,
     ArrayStorage(<<Stored(SeriesEpisode(2, NoHdVideo, FALSE), Progress(30, 40)),
                    Stored([Film(FALSE) EXCEPT !.movieId = 3], Progress(95, 95)),
                    Stored(Film(FALSE), Progress(96, 50))>>),
     ArrayStorage(<<Stored(SeriesEpisode(3, NoVideo, FALSE), Progress(30, 40))>>)}

SessionPreferences == {NULL, "hd", "4k"}

VideoDuration == 100
StartOfTime == 100
TickSeconds == 8
MaxElapsed == 8
MaxInFlight == 1

SaveInterval == 7
LockPercent == 50
RemoveTenths == 8

LongDuration == 1000

\* The renditions of a video of LongDuration seconds; any other URL is a
\* video of VideoDuration seconds.
LongVideo == [hdVideo |-> "e1.m3u8", midVideo |-> "e1.mpd", lowVideo |-> "e1.rebacdn1"]

\* art.duration once the video at url is loaded; an empty URL loads nothing.
DurationOf(url) ==
    IF ~Truthy(url) THEN 0
    ELSE IF \E q \in Qualities : LongVideo[UrlKey(q)] = url THEN LongDuration
    ELSE VideoDuration

\* (art.currentTime, art.duration) of a position sample: 0 of an unknown
\* duration, or a position of the loaded video.
Samples == {<<0, 0>>} \cup {<<t, VideoDuration>> : t \in {60, 85}}

(* The ad plugin and the countdown before an ad *)

MaxTimers == 2
MaxAdStarts == 2

\* let countdownValue = 10: the script counts ten seconds down, the model
\* CountdownSeconds; the runs of the callback before the last differ in the
\* text of the countdown button only.
CountdownSeconds == 3

ShortVideoLimit == 600

\* currentMovieData.adstatus === true
AdStatus(movieData) == "adstatus" \in DOMAIN movieData /\ movieData.adstatus = TRUE

\* plugins: currentMovieData.adstatus === false ? [] : [artplayerPluginAds(...)]
AdPluginInstalled(movieData) ==
    ~("adstatus" \in DOMAIN movieData /\ movieData.adstatus = FALSE)

\* preAdShown, midAdShown or postAdShown, by region
AdShown(adType) ==
    IF adType = "preLoll" THEN preAdShown
    ELSE IF adType = "midLoll" THEN midAdShown
    ELSE postAdShown

clearInterval_ignored(live, id) == live

\* clearInterval(id) on the timers live
clearInterval(live, id) == {t \in live : t.id # id}

\* The id setInterval returns: the identity of a timer is all that matters,
\* so the least id no live timer has.
FreeTimerId(live) ==
    CHOOSE i \in 1..MaxTimers :
        /\ \A t \in live : t.id # i
        /\ \A j \in 1..(i - 1) : \E t \in live : t.id = j

\* isAdPlaying = true; adPlugin.startAd() or adPlugin.updateVideoLink(adUrl, ...)
PlayAd(adType) ==
    /\ adStarts[adType] < MaxAdStarts
    /\ isAdPlaying' = TRUE
    /\ adShowing' = TRUE
    /\ adStarts' = [adStarts EXCEPT ![adType] = @ + 1]

\* showAdCountdownAndPlayAd(adType, adUrl) with art.duration = duration (0: NaN),
\* called when the timers live are alive and window.adCountdownInterval is
\* handle.  A video under ten minutes gets its ad at once, any other a
\* countdown; the new interval is started without a look at handle.
showAdCountdownAndPlayAd(adType, duration, live, handle) ==
    IF duration > 0 /\ duration < ShortVideoLimit
    THEN /\ timers' = live
         /\ adCountdownInterval' = handle
         /\ IF adPlugin
            THEN /\ PlayAd(adType)
                 /\ pendingAdType' = NULL
                 /\ currentAdRegion' = NULL
            ELSE /\ pendingAdType' = adType
                 /\ currentAdRegion' = adType
                 /\ UNCHANGED <<isAdPlaying, adShowing, adStarts>>
    ELSE /\ Cardinality(live) < MaxTimers
         /\ pendingAdType' = adType
         /\ currentAdRegion' = adType
         /\ LET id == FreeTimerId(live) IN
            /\ timers' = live \cup {[id |-> id, adType |-> adType,
                                     countdownValue |-> CountdownSeconds]}
            /\ adCountdownInterval' = id
         /\ UNCHANGED <<isAdPlaying, adShowing, adStarts>>

\* cancelCurrentCountdownAndStartNew(newAdType, newAdUrl)
cancelCurrentCountdownAndStartNew(newAdType, duration) ==
    showAdCountdownAndPlayAd(newAdType, duration,
                             clearInterval(timers, adCountdownInterval), NoTimer)

\* showLockOverlay() for the record movieData: with ads on it calls
\* playBlockedLollAd, which sets isAdPlaying when the plugin is installed.
showLockOverlayPlaysAd(movieData) == AdStatus(movieData) /\ adPlugin

(* The next-episode card *)

NextEpisodeSeconds == 2

\* nextEpisodeData of updateNextEpisodeCard: the entry of episodes after the
\* one movieData is (its position), or 0 when there is none.
NextEpisodeIndex(episodes, movieData) ==
    IF \E i \in 1..(Len(episodes) - 1) : episodes[i].episodeId = movieData.episodeId
    THEN 1 + CHOOSE i \in 1..(Len(episodes) - 1) : episodes[i].episodeId = movieData.episodeId
    ELSE 0

\* updateNextEpisodeCard(showNext): window.nextEpisodeCountdownTimer after the
\* call.  A timer that runs is cleared; the card with the countdown is shown
\* for a series (apiData.isSeason) whose active record has a next episode.
updateNextEpisodeCard(showNext, episodes, movieData) ==
    IF /\ showNext
       /\ Len(episodes) > 0 /\ episodes[1].isSeason
       /\ NextEpisodeIndex(episodes, movieData) > 0
    THEN NextEpisodeSeconds
    ELSE NoTimer

Init ==
    /\ revision = "part_002"
    /\ userPreferredQuality \in SessionPreferences
    /\ continuewatching \in SessionStorages
    /\ call = [op |-> "none"]
    /\ upsertOrder = <<>>
    /\ steps = 0
    /\ phase = "boot"
    /\ seriesData = <<>>
    /\ currentMovieData = NoEpisode
    /\ currentIndex = 0
    /\ activeQuality = ""
    /\ buttons = [q \in Qualities |-> ""]
    /\ switchQualityPending = {}
    /\ switchUrlPending = 0
    /\ lockOverlayShown_ = FALSE
    /\ movieRemoved = FALSE
    /\ lastSaveTime = 0
    /\ now = StartOfTime
    /\ videoPlayedOnce = FALSE
    /\ nextEpisodeCardShown = FALSE /\ nextEpisodeCountdownTimer = 0
    /\ videoType = "m3u8" /\ artType = NULL /\ artDuration = 0
    /\ adPlugin = FALSE /\ NoAds
    /\ quotaExceeded = FALSE

\* updateUIForNewEpisode, the quality buttons: 'disabled' without a usable URL,
\* 'active' for the quality in use.
updateUIForNewEpisode(movieData, quality) ==
    [q \in Qualities |->
        IF ~IsValidUrl(Get(movieData.video, UrlKey(q))) THEN "disabled"
        ELSE IF quality = q THEN "active"
        ELSE ""]

\* initializeApp up to its await of the fetch: cleanupCompletedMovies(), which
\* catches a failing write.
InitializeApp ==
    /\ phase = "boot"
    /\ continuewatching' = IF quotaExceeded THEN continuewatching
                           ELSE cleanupCompletedMovies(continuewatching)
    /\ phase' = "fetching"
    /\ call' = [op |-> "initializeApp"]
    /\ UNCHANGED <<revision, userPreferredQuality, upsertOrder, steps, seriesData,
                   currentMovieData, currentIndex, activeQuality, buttons,
                   switchQualityPending, switchUrlPending, lockOverlayShown_,
                   movieRemoved, lastSaveTime, now, widgetVars, adVars, quotaExceeded, videoPlayedOnce, nextVars>>

\* The fetch fails or answers with an error status: the catch block.
FetchRejected ==
    /\ phase = "fetching"
    /\ phase' = "failed"
    /\ call' = [op |-> "fetchRejected"]
    /\ UNCHANGED <<revision, userPreferredQuality, continuewatching, upsertOrder, steps,
                   seriesData, currentMovieData, currentIndex, activeQuality, buttons,
                   switchQualityPending, switchUrlPending, lockOverlayShown_,
                   movieRemoved, lastSaveTime, now, widgetVars, adVars, quotaExceeded, videoPlayedOnce, nextVars>>

\* seriesData.seasons.flatMap(s => s.episodes).find(ep => ep.episodeId === id);
\* 0 when there is none.
findEpisode(episodes, episodeId) ==
    LET hits == {i \in 1..Len(episodes) : episodes[i].episodeId = episodeId}
    IN  IF hits = {} THEN 0 ELSE CHOOSE i \in hits : \A j \in hits : i <= j

\* localStorage.setItem throws inside saveEpisodeProgress(episodeData)
saveThrows(episodeData) == quotaExceeded /\ HasMovieId(episodeData)

\* initializeApp after the fetch: the saved episode is merged with its fresh
\* counterpart and saved again, the initial quality is determined, and the
\* player is constructed, with the type the selector inferred, unless an
\* unlocked record has nothing to play.  A write that throws ends in the
\* catch block.
FetchResolved(episodes) ==
    /\ phase = "fetching"
    /\ seriesData' = episodes
    /\ LET movieId == episodes[1].movieId
           savedEpisode == getSavedEpisode(continuewatching, movieId)
           matching == IF savedEpisode = NoEpisode THEN 0
                       ELSE findEpisode(episodes, savedEpisode.episodeId)
           current == IF matching > 0
                      THEN mergeSavedWithFreshEpisode(savedEpisode, episodes[matching])
                      ELSE episodes[1]
           threw == matching > 0 /\ saveThrows(current)
           savedUserQuality == getUserQualityPreference(userPreferredQuality)
           initialPlaybackInfo ==
               determinePlaybackQualityAndUrl(revision, current, savedUserQuality)
           blocked == initialPlaybackInfo = NoPlaybackInfo /\ ~current.locked
           initialUrl == IF initialPlaybackInfo = NoPlaybackInfo THEN ""
                         ELSE initialPlaybackInfo.url
       IN  /\ currentMovieData' = current
           /\ currentIndex' = IF matching > 0 THEN 0 ELSE 1
           /\ continuewatching' = IF matching > 0 /\ ~threw
                                  THEN saveEpisodeProgress(continuewatching, current)
                                  ELSE continuewatching
           /\ videoType' = IF threw THEN videoType
                           ELSE videoTypeAfter(revision, videoType, current, savedUserQuality)
           /\ IF threw
              THEN /\ phase' = "failed"
                   /\ UNCHANGED <<activeQuality, artType, artDuration, adPlugin>>
              ELSE IF blocked
              THEN /\ phase' = "blocked"
                   /\ UNCHANGED <<activeQuality, artType, artDuration, adPlugin>>
              ELSE /\ phase' = "constructed"
                   /\ activeQuality' = IF initialPlaybackInfo = NoPlaybackInfo THEN ""
                                       ELSE initialPlaybackInfo.quality
                   /\ artType' = videoType'
                   /\ artDuration' = DurationOf(initialUrl)
                   /\ adPlugin' = AdPluginInstalled(current)
           /\ call' = [op |-> "fetchResolved",
                       url |-> IF threw \/ blocked THEN NULL ELSE initialUrl]
    /\ UNCHANGED <<revision, userPreferredQuality, upsertOrder, steps, buttons,
                   switchQualityPending, switchUrlPending, lockOverlayShown_,
                   movieRemoved, lastSaveTime, now, adShowing, isAdPlaying, preAdShown,
                   midAdShown, postAdShown, pendingAdType, currentAdRegion,
                   adCountdownInterval, timers, adStarts, quotaExceeded, videoPlayedOnce, nextVars>>

\* art.on('ready'): the handlers are registered and the buttons drawn.
Ready ==
    /\ phase = "constructed"
    /\ phase' = "ready"
    /\ buttons' = updateUIForNewEpisode(currentMovieData, activeQuality)
    /\ nextEpisodeCountdownTimer' =
           updateNextEpisodeCard(FALSE, seriesData, currentMovieData)
    /\ call' = [op |-> "ready"]
    /\ UNCHANGED <<revision, userPreferredQuality, continuewatching, upsertOrder, steps,
                   seriesData, currentMovieData, currentIndex, activeQuality,
                   switchQualityPending, switchUrlPending, lockOverlayShown_,
                   movieRemoved, lastSaveTime, now, widgetVars, adVars, quotaExceeded,
                   videoPlayedOnce, nextEpisodeCardShown>>

\* switchToEpisode(ep), ep the i-th episode of seriesData: the ad flags are
\* reset and the interval window.adCountdownInterval names is cleared, the
\* record becomes the active one and is saved, and the URL the selector
\* returns goes to art.switchUrl; the player's type is not assigned.  A write
\* that throws ends the function where it stands.
switchToEpisode(i) ==
    /\ phase = "ready" /\ ~lockOverlayShown_
    /\ i \in 1..Len(seriesData)
    /\ LET ep == seriesData[i]
           threw == saveThrows(ep)
           savedUserQualityForSwitch == getUserQualityPreference(userPreferredQuality)
           switchPlaybackInfo ==
               determinePlaybackQualityAndUrl(revision, ep, savedUserQualityForSwitch)
           hasUrl == ~threw /\ switchPlaybackInfo # NoPlaybackInfo
           overlay == ~threw /\ switchPlaybackInfo = NoPlaybackInfo /\ ep.locked
       IN  /\ hasUrl => switchUrlPending < MaxInFlight
           /\ preAdShown' = FALSE /\ midAdShown' = FALSE /\ postAdShown' = FALSE
           /\ currentAdRegion' = NULL /\ pendingAdType' = NULL
           /\ timers' = clearInterval(timers, adCountdownInterval)
           /\ adCountdownInterval' = NoTimer
           /\ adStarts' = NoAdStarts
           /\ nextEpisodeCountdownTimer' = NoTimer
           /\ currentMovieData' = ep
           /\ currentIndex' = i
           /\ continuewatching' = IF threw THEN continuewatching
                                  ELSE saveEpisodeProgress(continuewatching, ep)
           /\ videoType' = IF threw THEN videoType
                           ELSE videoTypeAfter(revision, videoType, ep,
                                               savedUserQualityForSwitch)
           /\ activeQuality' = IF threw THEN activeQuality
                               ELSE IF hasUrl THEN switchPlaybackInfo.quality ELSE ""
           /\ artDuration' = IF hasUrl THEN DurationOf(switchPlaybackInfo.url)
                             ELSE artDuration
           /\ switchUrlPending' = IF hasUrl THEN switchUrlPending + 1 ELSE switchUrlPending
           /\ lockOverlayShown_' = overlay
           /\ isAdPlaying' = (overlay /\ showLockOverlayPlaysAd(ep))
           /\ adShowing' = (adShowing \/ (overlay /\ showLockOverlayPlaysAd(ep)))
           /\ call' = [op |-> "switchToEpisode", threw |-> threw,
                       url |-> IF hasUrl THEN switchPlaybackInfo.url ELSE NULL]
    /\ UNCHANGED <<revision, userPreferredQuality, upsertOrder, steps, phase, seriesData,
                   buttons, switchQualityPending, movieRemoved, lastSaveTime, now,
                   artType, adPlugin, quotaExceeded, videoPlayedOnce,
                   nextEpisodeCardShown>>

\* art.switchUrl(...).then: the buttons are drawn for the new episode.
SwitchUrlResolved ==
    /\ switchUrlPending > 0
    /\ switchUrlPending' = switchUrlPending - 1
    /\ buttons' = updateUIForNewEpisode(currentMovieData, activeQuality)
    /\ nextEpisodeCardShown' = FALSE
    /\ nextEpisodeCountdownTimer' =
           updateNextEpisodeCard(FALSE, seriesData, currentMovieData)
    /\ call' = [op |-> "switchUrlResolved"]
    /\ UNCHANGED <<revision, userPreferredQuality, continuewatching, upsertOrder, steps,
                   phase, seriesData, currentMovieData, currentIndex, activeQuality,
                   switchQualityPending, lockOverlayShown_, movieRemoved, lastSaveTime,
                   now, widgetVars, adVars, quotaExceeded, videoPlayedOnce>>

\* art.switchUrl(...).catch
SwitchUrlRejected ==
    /\ switchUrlPending > 0
    /\ switchUrlPending' = switchUrlPending - 1
    /\ call' = [op |-> "switchUrlRejected"]
    /\ UNCHANGED <<revision, userPreferredQuality, continuewatching, upsertOrder, steps,
                   phase, seriesData, currentMovieData, currentIndex, activeQuality,
                   buttons, switchQualityPending, lockOverlayShown_, movieRemoved,
                   lastSaveTime, now, widgetVars, adVars, quotaExceeded, videoPlayedOnce, nextVars>>

\* A click on the quality button chosenQuality; disabled and active buttons
\* ignore it, and the overlay hides the buttons.  The selector assigns the
\* global videoType; the URL goes to art.switchQuality.
QualityClick(chosenQuality) ==
    /\ phase = "ready" /\ ~lockOverlayShown_
    /\ buttons[chosenQuality] \notin {"disabled", "active"}
    /\ Cardinality(switchQualityPending) < MaxInFlight
    /\ LET switchPlaybackInfo ==
               determinePlaybackQualityAndUrl(revision, currentMovieData, chosenQuality)
           promise == [chosenQuality |-> chosenQuality,
                       qualityForLogging |-> switchPlaybackInfo.quality]
       IN  /\ switchQualityPending' =
                  IF switchPlaybackInfo # NoPlaybackInfo
                  THEN switchQualityPending \cup {promise}
                  ELSE switchQualityPending
           /\ videoType' = videoTypeAfter(revision, videoType, currentMovieData,
                                          chosenQuality)
           /\ artDuration' = IF switchPlaybackInfo # NoPlaybackInfo
                             THEN DurationOf(switchPlaybackInfo.url)
                             ELSE artDuration
           /\ call' = [op |-> "qualityClick", chosenQuality |-> chosenQuality,
                       url |-> switchPlaybackInfo.url]
    /\ UNCHANGED <<revision, userPreferredQuality, continuewatching, upsertOrder, steps,
                   phase, seriesData, currentMovieData, currentIndex, activeQuality,
                   buttons, switchUrlPending, lockOverlayShown_, movieRemoved,
                   lastSaveTime, now, artType, adVars, quotaExceeded, videoPlayedOnce, nextVars>>

\* art.switchQuality(...).then: the choice becomes the stored preference,
\* unless the write throws, which saveUserQualityPreference catches.
SwitchQualityResolved(promise) ==
    /\ promise \in switchQualityPending
    /\ switchQualityPending' = switchQualityPending \ {promise}
    /\ activeQuality' = promise.qualityForLogging
    /\ userPreferredQuality' =
           IF quotaExceeded THEN userPreferredQuality
           ELSE saveUserQualityPreference(userPreferredQuality, promise.chosenQuality)
    /\ buttons' = updateUIForNewEpisode(currentMovieData, promise.qualityForLogging)
    /\ call' = [op |-> "switchQualityResolved", chosenQuality |-> promise.chosenQuality,
                storedBefore |-> userPreferredQuality]
    /\ UNCHANGED <<revision, continuewatching, upsertOrder, steps, phase, seriesData,
                   currentMovieData, currentIndex, switchUrlPending, lockOverlayShown_,
                   movieRemoved, lastSaveTime, now, widgetVars, adVars, quotaExceeded, videoPlayedOnce, nextVars>>

\* art.switchQuality(...).catch
SwitchQualityRejected(promise) ==
    /\ promise \in switchQualityPending
    /\ switchQualityPending' = switchQualityPending \ {promise}
    /\ call' = [op |-> "switchQualityRejected", chosenQuality |-> promise.chosenQuality,
                storedBefore |-> userPreferredQuality]
    /\ UNCHANGED <<revision, userPreferredQuality, continuewatching, upsertOrder, steps,
                   phase, seriesData, currentMovieData, currentIndex, activeQuality,
                   buttons, switchUrlPending, lockOverlayShown_, movieRemoved,
                   lastSaveTime, now, widgetVars, adVars, quotaExceeded, videoPlayedOnce, nextVars>>

\* Math.round(a / b) for a >= 0 and b > 0
Round(a, b) == (2 * a + b) \div (2 * b)

\* (art.currentTime / art.duration) * 100, in steps of 1/PercentScale
PercentageOf(currentTime, duration) ==
    IF duration > 0 THEN (currentTime * 100 * PercentScale) \div duration ELSE NaN

SaveDue_always(elapsed) == TRUE

\* currentTime - lastSaveTime > 7000, in seconds
SaveDue(elapsed) == elapsed > SaveInterval

\* art.on('video:timeupdate') with art.currentTime and art.duration of the
\* sample.  Under the overlay or during an ad the handler returns at once.
\* Otherwise: the lock checks, the periodic save, the removal of a finished
\* film, and the ad triggering.  A write that throws ends the handler where
\* it stands: what came before it has happened, what comes after has not.
TimeUpdate(currentTime, duration) ==
    /\ phase = "ready" /\ ~lockOverlayShown_ /\ ~isAdPlaying
    /\ LET cur == currentMovieData
           lockSeries == cur.locked /\ cur.type = "S"
           lockFilm == /\ duration > 0
                       /\ currentTime * 100 > LockPercent * duration
                       /\ cur.type = "M" /\ cur.locked
           locks == lockSeries \/ lockFilm
           blockedLoll == locks /\ showLockOverlayPlaysAd(cur)
           saveDue == SaveDue(now - lastSaveTime) /\ duration > 0
           updated ==
               IF saveDue
               THEN [cur EXCEPT !.continueWatching.inMinutes = currentTime,
                                !.continueWatching.inPercentage =
                                    Round(currentTime * 100, duration)]
               ELSE cur
           saveThrew == saveDue /\ saveThrows(updated)
           saved == IF saveDue /\ ~saveThrew
                    THEN saveEpisodeProgress(continuewatching, updated)
                    ELSE continuewatching
           finished == /\ ~saveThrew
                       /\ ~cur.isSeason /\ ~movieRemoved /\ duration > 0
                       /\ currentTime * 10 >= RemoveTenths * duration
           removeThrew == finished /\ quotaExceeded
           threw == saveThrew \/ removeThrew
           adLogic == ~threw /\ AdStatus(updated) /\ ~blockedLoll
           newAdRegion == getCurrentAdRegion(PercentageOf(currentTime, duration))
           due == newAdRegion \in AdTypes /\ ~AdShown(newAdRegion)
           moved == /\ Truthy(pendingAdType) /\ Truthy(currentAdRegion)
                    /\ newAdRegion # currentAdRegion
           endTime == ItemEndTime(updated)
           showNext == /\ ~threw
                       /\ endTime # NaN /\ currentTime >= endTime
                       /\ ~nextEpisodeCardShown
                       /\ Len(seriesData) > 0 /\ seriesData[1].isSeason
       IN  /\ videoPlayedOnce' = TRUE
           /\ nextEpisodeCardShown' = (nextEpisodeCardShown \/ showNext)
           /\ nextEpisodeCountdownTimer' =
                  IF showNext THEN updateNextEpisodeCard(TRUE, seriesData, updated)
                  ELSE nextEpisodeCountdownTimer
           /\ lockOverlayShown_' = locks
           /\ currentMovieData' = updated
           /\ seriesData' = IF currentIndex > 0
                            THEN [seriesData EXCEPT ![currentIndex] = updated]
                            ELSE seriesData
           /\ lastSaveTime' = IF saveDue /\ ~saveThrew THEN now ELSE lastSaveTime
           /\ continuewatching' = IF finished /\ ~removeThrew
                                  THEN removeEpisodeProgress(saved, cur.movieId)
                                  ELSE saved
           /\ movieRemoved' = (movieRemoved \/ (finished /\ ~removeThrew))
           /\ IF ~adLogic
              THEN /\ isAdPlaying' = blockedLoll
                   /\ adShowing' = (adShowing \/ blockedLoll)
                   /\ UNCHANGED <<preAdShown, midAdShown, postAdShown, pendingAdType,
                                  currentAdRegion, adCountdownInterval, timers, adStarts>>
              ELSE IF moved
              THEN /\ IF due
                      THEN cancelCurrentCountdownAndStartNew(newAdRegion, duration)
                      ELSE /\ timers' = clearInterval(timers, adCountdownInterval)
                           /\ adCountdownInterval' = NoTimer
                           /\ pendingAdType' = NULL
                           /\ currentAdRegion' = NULL
                           /\ UNCHANGED <<isAdPlaying, adShowing, adStarts>>
                   /\ UNCHANGED <<preAdShown, midAdShown, postAdShown>>
              ELSE IF ~Truthy(pendingAdType) /\ due
              THEN /\ showAdCountdownAndPlayAd(newAdRegion, duration, timers,
                                               adCountdownInterval)
                   /\ preAdShown' = (preAdShown \/ newAdRegion = "preLoll")
                   /\ midAdShown' = (midAdShown \/ newAdRegion = "midLoll")
                   /\ postAdShown' = (postAdShown \/ newAdRegion = "postLoll")
              ELSE UNCHANGED adVars
           /\ call' = [op |-> "timeupdate", threw |-> threw,
                       newAdRegion |-> IF adLogic THEN newAdRegion ELSE NULL]
    /\ UNCHANGED <<revision, userPreferredQuality, upsertOrder, steps, phase,
                   currentIndex, activeQuality, buttons, switchQualityPending,
                   switchUrlPending, now, widgetVars, adPlugin, quotaExceeded>>

\* art.on('video:ended') with art.duration of the video: the postLoll ad is
\* asked for unless the flag is set or an ad is playing; a pending countdown
\* is not looked at.  Then the next-episode card is shown with its countdown.
VideoEnded(duration) ==
    /\ phase = "ready" /\ ~lockOverlayShown_
    /\ IF AdStatus(currentMovieData) /\ ~postAdShown /\ ~isAdPlaying
       THEN /\ showAdCountdownAndPlayAd("postLoll", duration, timers, adCountdownInterval)
            /\ postAdShown' = TRUE
            /\ UNCHANGED <<preAdShown, midAdShown>>
       ELSE UNCHANGED <<adShowing, isAdPlaying, preAdShown, midAdShown, postAdShown,
                        pendingAdType, currentAdRegion, adCountdownInterval, timers,
                        adStarts>>
    /\ nextEpisodeCountdownTimer' =
           updateNextEpisodeCard(TRUE, seriesData, currentMovieData)
    /\ nextEpisodeCardShown' = TRUE
    /\ call' = [op |-> "ended"]
    /\ UNCHANGED <<revision, userPreferredQuality, continuewatching, upsertOrder, steps,
                   scriptVars, widgetVars, adPlugin, quotaExceeded>>

\* countdownValue-- ; every value below 1 acts alike, so 0 stands for them.
Decrement(countdownValue) == IF countdownValue > 0 THEN countdownValue - 1 ELSE 0

\* One run of the interval callback of the timer id.  At 0 (and at every run
\* after it, if nothing cleared the timer) it clears the interval
\* window.adCountdownInterval names, which need not be its own, and plays its
\* ad if its type is the pending one.
CountdownTick(id) ==
    \E timer \in timers :
        /\ timer.id = id
        /\ LET countdownValue == Decrement(timer.countdownValue)
               ticked == (timers \ {timer})
                             \cup {[id |-> id, adType |-> timer.adType,
                                    countdownValue |-> countdownValue]}
           IN  IF countdownValue <= 0
               THEN /\ timers' = clearInterval(ticked, adCountdownInterval)
                    /\ adCountdownInterval' = NoTimer
                    /\ IF adPlugin /\ pendingAdType = timer.adType
                       THEN PlayAd(timer.adType)
                       ELSE UNCHANGED <<isAdPlaying, adShowing, adStarts>>
                    /\ pendingAdType' = NULL
                    /\ currentAdRegion' = NULL
                    /\ call' = [op |-> "countdownDone", adType |-> timer.adType,
                                played |-> (adPlugin /\ pendingAdType = timer.adType)]
               ELSE /\ timers' = ticked
                    /\ call' = [op |-> "countdownTick"]
                    /\ UNCHANGED <<isAdPlaying, adShowing, adStarts, pendingAdType,
                                   currentAdRegion, adCountdownInterval>>
        /\ UNCHANGED <<revision, userPreferredQuality, continuewatching, upsertOrder,
                       steps, scriptVars, widgetVars, adPlugin, preAdShown, midAdShown,
                       postAdShown, nextVars, quotaExceeded>>

\* art.on('artplayerPluginAds:close'): the flag and the pending state are
\* reset and the interval window.adCountdownInterval names is cleared.
AdClose ==
    /\ adShowing
    /\ adShowing' = FALSE
    /\ isAdPlaying' = FALSE
    /\ pendingAdType' = NULL
    /\ currentAdRegion' = NULL
    /\ timers' = clearInterval(timers, adCountdownInterval)
    /\ adCountdownInterval' = NoTimer
    /\ call' = [op |-> "adClose"]
    /\ UNCHANGED <<revision, userPreferredQuality, continuewatching, upsertOrder, steps,
                   scriptVars, widgetVars, adPlugin, preAdShown, midAdShown, postAdShown,
                   adStarts, nextVars, quotaExceeded>>

\* art.on('artplayerPluginAds:error'): as on close, and a notice is shown.
AdError ==
    /\ adShowing
    /\ adShowing' = FALSE
    /\ isAdPlaying' = FALSE
    /\ pendingAdType' = NULL
    /\ currentAdRegion' = NULL
    /\ timers' = clearInterval(timers, adCountdownInterval)
    /\ adCountdownInterval' = NoTimer
    /\ call' = [op |-> "adError"]
    /\ UNCHANGED <<revision, userPreferredQuality, continuewatching, upsertOrder, steps,
                   scriptVars, widgetVars, adPlugin, preAdShown, midAdShown, postAdShown,
                   adStarts, nextVars, quotaExceeded>>

\* One run of the interval callback of the next-episode timer.  At 0 the
\* timer is cleared and the next episode is switched to, or the lock overlay
\* is shown if that episode is locked.
NextEpisodeTick ==
    /\ phase = "ready"
    /\ nextEpisodeCountdownTimer # NoTimer
    /\ LET countdownValue == nextEpisodeCountdownTimer - 1
           next == NextEpisodeIndex(seriesData, currentMovieData)
       IN  IF countdownValue > 0
           THEN /\ nextEpisodeCountdownTimer' = countdownValue
                /\ call' = [op |-> "nextEpisodeTick"]
                /\ UNCHANGED <<revision, userPreferredQuality, continuewatching,
                               upsertOrder, steps, scriptVars, widgetVars, adVars,
                               nextEpisodeCardShown, quotaExceeded>>
           ELSE IF seriesData[next].locked
           THEN /\ nextEpisodeCountdownTimer' = NoTimer
                /\ lockOverlayShown_' = TRUE
                /\ isAdPlaying' = (isAdPlaying \/ showLockOverlayPlaysAd(currentMovieData))
                /\ adShowing' = (adShowing \/ showLockOverlayPlaysAd(currentMovieData))
                /\ call' = [op |-> "nextEpisodeLocked"]
                /\ UNCHANGED <<revision, userPreferredQuality, continuewatching,
                               upsertOrder, steps, phase, seriesData, currentMovieData,
                               currentIndex, activeQuality, buttons, switchQualityPending,
                               switchUrlPending, movieRemoved, lastSaveTime, now,
                               videoPlayedOnce, widgetVars, adPlugin, preAdShown,
                               midAdShown, postAdShown, pendingAdType, currentAdRegion,
                               adCountdownInterval, timers, adStarts,
                               nextEpisodeCardShown, quotaExceeded>>
           ELSE switchToEpisode(next)

\* Time passes.
Tick ==
    /\ phase = "ready"
    /\ now + TickSeconds <= StartOfTime + MaxElapsed
    /\ now' = now + TickSeconds
    /\ call' = [op |-> "tick"]
    /\ UNCHANGED <<revision, userPreferredQuality, continuewatching, upsertOrder, steps,
                   phase, seriesData, currentMovieData, currentIndex, activeQuality,
                   buttons, switchQualityPending, switchUrlPending, lockOverlayShown_,
                   movieRemoved, lastSaveTime, widgetVars, adVars, quotaExceeded, videoPlayedOnce, nextVars>>

Next ==
    \/ InitializeApp
    \/ FetchRejected
    \/ \E episodes \in Catalogs : FetchResolved(episodes)
    \/ Ready
    \/ \E i \in 1..Len(seriesData) : switchToEpisode(i)
    \/ SwitchUrlResolved
    \/ SwitchUrlRejected
    \/ \E chosenQuality \in Qualities : QualityClick(chosenQuality)
    \/ \E promise \in switchQualityPending : SwitchQualityResolved(promise)
    \/ \E promise \in switchQualityPending : SwitchQualityRejected(promise)
    \/ \E sample \in Samples : TimeUpdate(sample[1], sample[2])
    \/ Tick

Spec == Init /\ [][Next]_vars

-----------------------------------------------------------------------------
(* The save throttle: one film played from an empty store, with the clock   *)
(* read second by second.                                                    *)

\* One second of wall-clock time passes (Date.now() grows by 1000).
TickOneSecond ==
    /\ phase = "ready"
    /\ now + 1 <= StartOfTime + MaxElapsed
    /\ now' = now + 1
    /\ call' = [op |-> "tick"]
    /\ UNCHANGED <<revision, userPreferredQuality, continuewatching, upsertOrder, steps,
                   phase, seriesData, currentMovieData, currentIndex, activeQuality,
                   buttons, switchQualityPending, switchUrlPending, lockOverlayShown_,
                   movieRemoved, lastSaveTime, widgetVars, adVars, quotaExceeded, videoPlayedOnce, nextVars>>

InitThrottle ==
    /\ IdleSelection
    /\ IdleStore
    /\ call = [op |-> "none"]
    /\ phase = "boot"
    /\ seriesData = <<>>
    /\ currentMovieData = NoEpisode
    /\ currentIndex = 0
    /\ activeQuality = ""
    /\ buttons = [q \in Qualities |-> ""]
    /\ switchQualityPending = {}
    /\ switchUrlPending = 0
    /\ lockOverlayShown_ = FALSE
    /\ movieRemoved = FALSE
    /\ lastSaveTime = 0
    /\ now = StartOfTime
    /\ videoPlayedOnce = FALSE
    /\ nextEpisodeCardShown = FALSE /\ nextEpisodeCountdownTimer = 0
    /\ videoType = "m3u8" /\ artType = NULL /\ artDuration = 0
    /\ adPlugin = FALSE /\ NoAds
    /\ quotaExceeded = FALSE

NextThrottle ==
    \/ InitializeApp
    \/ FetchResolved(<<Film(FALSE)>>)
    \/ Ready
    \/ \E sample \in Samples : TimeUpdate(sample[1], sample[2])
    \/ TickOneSecond

SpecThrottle == InitThrottle /\ [][NextThrottle]_vars

-----------------------------------------------------------------------------
(* A session with ads: a series whose records carry adstatus = true, played *)
(* from an empty store, with or without a store that rejects writes.  The   *)
(* clock stands still, so that only the first position sample saves.        *)

\* rec with adstatus: true
WithAds(rec) ==
    [f \in (DOMAIN rec) \cup {"adstatus"} |-> IF f = "adstatus" THEN TRUE ELSE rec[f]]

\* A long episode, whose credits start at 90% of it, and a short one.
AdCatalog ==
    <<WithAds([SeriesEpisode(1, LongVideo, FALSE) EXCEPT !.time.endTime = "900"]),
      WithAds(SeriesEpisode(2, NoHdVideo, FALSE))>>

\* Positions sampled, in percent of the duration: before the first region,
\* in preLoll, in midLoll and in postLoll.  Playback starts before the first
\* region: the first sample of the session is taken at StartPercent.
\* The same series with ads switched off for its first episode: the player
\* of such a session is constructed without the ad plugin.
NoPluginCatalog ==
    <<[AdCatalog[1] EXCEPT !.adstatus = FALSE], AdCatalog[2]>>

StartPercent == 10
AdPercents == {StartPercent, 30, 60, 90}

InitAds ==
    /\ revision = "part_002"
    /\ userPreferredQuality = NULL
    /\ continuewatching = AbsentStorage
    /\ call = [op |-> "none"]
    /\ upsertOrder = <<>>
    /\ steps = 0
    /\ phase = "boot"
    /\ seriesData = <<>>
    /\ currentMovieData = NoEpisode
    /\ currentIndex = 0
    /\ activeQuality = ""
    /\ buttons = [q \in Qualities |-> ""]
    /\ switchQualityPending = {}
    /\ switchUrlPending = 0
    /\ lockOverlayShown_ = FALSE
    /\ movieRemoved = FALSE
    /\ lastSaveTime = 0
    /\ now = StartOfTime
    /\ videoPlayedOnce = FALSE
    /\ nextEpisodeCardShown = FALSE /\ nextEpisodeCountdownTimer = 0
    /\ videoType = "m3u8" /\ artType = NULL /\ artDuration = 0
    /\ adPlugin = FALSE /\ NoAds
    /\ quotaExceeded \in BOOLEAN

NextAds ==
    \/ InitializeApp
    \/ FetchResolved(AdCatalog)
    \/ FetchResolved(NoPluginCatalog)
    \/ Ready
    \/ \E i \in 1..Len(seriesData) : switchToEpisode(i)
    \/ SwitchUrlResolved
    \/ \E p \in AdPercents :
          /\ ~videoPlayedOnce => p = StartPercent
          /\ TimeUpdate((p * artDuration) \div 100, artDuration)
    \/ videoPlayedOnce /\ VideoEnded(artDuration)
    \/ \E id \in 1..MaxTimers : CountdownTick(id)
    \/ AdClose
    \/ AdError

SpecAds == InitAds /\ [][NextAds]_vars

-----------------------------------------------------------------------------
(* The end of an episode in a session with ads: the video is played to the  *)
(* end without a click of the user; the next-episode countdown moves on to  *)
(* the next episode.                                                        *)

\* A short episode, a long one without an end offset (its next-episode card
\* is shown by video:ended only), and a short one.
EndCatalog ==
    <<WithAds(SeriesEpisode(1, NoHdVideo, FALSE)),
      WithAds([SeriesEpisode(2, LongVideo, FALSE) EXCEPT !.time.endTime = ""]),
      WithAds(SeriesEpisode(3, NoHdVideo, FALSE))>>

NextEnd ==
    \/ InitializeApp
    \/ FetchResolved(EndCatalog)
    \/ Ready
    \/ SwitchUrlResolved
    \/ \E p \in AdPercents :
          /\ ~videoPlayedOnce => p = StartPercent
          /\ TimeUpdate((p * artDuration) \div 100, artDuration)
    \/ videoPlayedOnce /\ VideoEnded(artDuration)
    \/ \E id \in 1..MaxTimers : CountdownTick(id)
    \/ AdClose
    \/ AdError
    \/ NextEpisodeTick

SpecEnd == InitAds /\ [][NextEnd]_vars

(* ---- Claims on the type inference ---- *)

\* The type the claim C11 assigns to a URL.
TypeAsStated(url) ==
    LET lower == toLowerCase(url) IN
    IF Includes(lower, ".m3u8") \/ Includes(lower, ".rebacdn1") THEN "m3u8"
    ELSE IF Includes(lower, ".mpd") \/ Includes(lower, ".rebacdn2") THEN "mpd"
    ELSE "m3u8"

\* C11: once a URL has been selected, the inferred type is HLS when the
\* lower-cased URL contains '.m3u8' or '.rebacdn1', DASH when it otherwise
\* contains '.mpd' or '.rebacdn2', and HLS for any other URL.
C11_InferredType ==
    (call.op = "determine" /\ call.done /\ call.info # NoPlaybackInfo)
        => videoType = TypeAsStated(call.info.url)

(* ---- Claims on the ad countdown ---- *)

\* The timer window.adCountdownInterval names, as a set: empty or one timer.
HandleTimers == {t \in timers : t.id = adCountdownInterval}

\* The step is a position sample whose ad logic ran while a countdown was
\* pending (its timer running) for another region than the sampled one.
SampleLeavesPendingRegion ==
    /\ call'.op = "timeupdate"
    /\ call'.newAdRegion # NULL
    /\ Truthy(pendingAdType)
    /\ HandleTimers # {}
    /\ call'.newAdRegion # currentAdRegion

\* C12: when a position sample whose ad logic runs (no overlay, no ad playing,
\* ads on, no write failed) falls in a region or gap other than the region of
\* the pending countdown, the timer of that countdown is cleared, so that it
\* cannot trigger its ad, and no ad plays in the step; if the sampled region
\* is a region whose flag is not set, a countdown for that region starts from
\* the top, otherwise no countdown is pending afterwards.
C12_LeavingCancelsCountdown ==
    [][SampleLeavesPendingRegion
         => /\ \A t \in HandleTimers : t \notin timers'
            /\ ~isAdPlaying'
            /\ IF call'.newAdRegion \in AdTypes /\ ~AdShown(call'.newAdRegion)
               THEN /\ pendingAdType' = call'.newAdRegion
                    /\ currentAdRegion' = call'.newAdRegion
                    /\ \E t \in timers' :
                          /\ t.id = adCountdownInterval'
                          /\ t.adType = call'.newAdRegion
                          /\ t.countdownValue = CountdownSeconds
               ELSE /\ pendingAdType' = NULL
                    /\ adCountdownInterval' = NoTimer]_vars

\* C12 witness: the preLoll countdown was pending when a sample fell into
\* midLoll; the countdown pending now is a fresh one for midLoll.
C12_Witness ==
    /\ call.op = "timeupdate"
    /\ call.newAdRegion = "midLoll"
    /\ preAdShown /\ ~midAdShown
    /\ pendingAdType = "midLoll"
    /\ \E t \in HandleTimers : t.adType = "midLoll" /\ t.countdownValue = CountdownSeconds

\* C13: right after switchToEpisode all three region flags are unset, no
\* countdown is pending, and no countdown timer is alive: none that was
\* started for the previous episode can run on or trigger an ad.
C13_SwitchLeavesNoCountdown ==
    call.op = "switchToEpisode"
        => /\ ~preAdShown /\ ~midAdShown /\ ~postAdShown
           /\ pendingAdType = NULL /\ currentAdRegion = NULL
           /\ adCountdownInterval = NoTimer
           /\ timers = {}

\* C17: at most one ad countdown interval timer is alive at any time.
C17_AtMostOneCountdownTimer == Cardinality(timers) <= 1

\* C15: since the active record last changed, the ad of each region has been
\* started at most once.
C15_EachAdAtMostOnce == \A adType \in AdTypes : adStarts[adType] <= 1

\* C16: after a position sample the flag of a region is set only if the
\* countdown of the region has completed and its ad has been started: a
\* region whose ad has not been started since the active record changed still
\* has its flag unset, so that a return to the region starts its countdown
\* again.
C16_FiredOnlyWithItsAd ==
    call.op = "timeupdate"
        => \A adType \in AdTypes : AdShown(adType) => adStarts[adType] >= 1

\* C20: right after the ad plugin has reported the end of an ad, by close or
\* by error, no ad is playing, no countdown is pending, and no countdown
\* timer is alive.
C20_AdEndLeavesNoCountdown ==
    call.op \in {"adClose", "adError"}
        => /\ ~isAdPlaying
           /\ pendingAdType = NULL /\ currentAdRegion = NULL
           /\ adCountdownInterval = NoTimer
           /\ timers = {}

\* C25: whenever a countdown is pending and no ad is playing, the timer of
\* that countdown is alive, so that the countdown ends by playing its ad or
\* by being cancelled.
C25_PendingHasTimer ==
    (Truthy(pendingAdType) /\ ~isAdPlaying)
        => \E t \in HandleTimers : t.adType = pendingAdType

\* C26: the script's flag isAdPlaying is set for as long as the plugin has an
\* ad on screen: only the close and error handlers of the plugin clear it.
C26_FlagSetWhileAdShows == adShowing => isAdPlaying

\* C30: the automatic advance to the next episode (the step on which the
\* next-episode countdown runs out and switches the episode) is never taken
\* while the post-roll countdown is still pending, so the countdown started by
\* video:ended is not cancelled by the advance and the post-roll is played first.
C30_PostRollBeforeAdvance ==
    [][(/\ nextEpisodeCountdownTimer # NoTimer
        /\ nextEpisodeCountdownTimer' = NoTimer
        /\ call'.op = "switchToEpisode")
       => pendingAdType # "postLoll"]_vars

\* C27: the active-quality tracker names a tier of the active record: when
\* it is set, the active record has a valid URL of that tier (the one that
\* was loaded), also after a quality-switch completion that arrives after an
\* episode switch.
C27_TrackerNamesLoadedTier ==
    Truthy(activeQuality) => IsValidUrl(currentMovieData.video[UrlKey(activeQuality)])

(* ---- Claims on storage failures ---- *)

\* C14: a write the store rejects does not escape the store operation, so
\* every position sample the handler takes up is handled to the end, the ad
\* triggering included.
C14_SampleHandledToTheEnd == call.op = "timeupdate" => ~call.threw

(* ---- Claims on rendition selection ---- *)

\* A URL as the claims call it valid: present and without 'not found'.
ValidRendition(url) ==
    /\ url # NULL /\ url # ""
    /\ \A i \in 1..(Len(url) - 8) : SubSeq(url, i, i + 8) # "not found"

TierUrl(md, q) ==
    IF "video" \in DOMAIN md THEN md.video[q \o "Video"] ELSE NULL

ValidTiers(md) == {q \in Qualities : ValidRendition(TierUrl(md, q))}

\* The first valid tier in the order hd, mid, low, with its URL.
FirstInPriority(md) ==
    IF "hd" \in ValidTiers(md) THEN [url |-> TierUrl(md, "hd"), quality |-> "hd"]
    ELSE IF "mid" \in ValidTiers(md) THEN [url |-> TierUrl(md, "mid"), quality |-> "mid"]
    ELSE [url |-> TierUrl(md, "low"), quality |-> "low"]

\* C1: for a record with at least one valid rendition and a preference P in
\* {hd, mid, low}, determinePlaybackQualityAndUrl(record, P) is P's URL with tier
\* P when that URL is valid, otherwise the first valid tier in the order hd,
\* mid, low; the stored preference is the same after the call as before it.
C1_PreferredElseFirstValid ==
    (call.op = "select" /\ call.done /\ call.preferredQuality \in Qualities
        /\ ValidTiers(call.movieData) # {})
    => LET P == call.preferredQuality
           md == call.movieData
       IN  /\ P \in ValidTiers(md) => call.info = [url |-> TierUrl(md, P), quality |-> P]
           /\ P \notin ValidTiers(md) => call.info = FirstInPriority(md)
           /\ userPreferredQuality = call.storedBefore

\* C1 witness: preference hd, hd 'not found', and the selection fell back to
\* mid while the stored preference is still hd.
C1_Witness ==
    /\ call.op = "select" /\ call.done
    /\ call.preferredQuality = "hd"
    /\ call.storedBefore = "hd" /\ userPreferredQuality = "hd"
    /\ TierUrl(call.movieData, "hd") = "not found"
    /\ call.info.quality = "mid"

\* C2 (as stated, read on the revision whose default is Low, part_000): with
\* no stored preference the selection is Low when Low is valid; otherwise the
\* first valid of High, Medium; it is NotAvailable only when no tier is valid;
\* and no preference is persisted.
C2_DefaultLowThenPriority ==
    (call.op = "select" /\ call.done /\ call.preferredQuality = NULL
        /\ revision = "part_000")
    => LET md == call.movieData IN
       /\ "low" \in ValidTiers(md)
            => call.info = [url |-> TierUrl(md, "low"), quality |-> "low"]
       /\ ("low" \notin ValidTiers(md) /\ ValidTiers(md) # {})
            => call.info = FirstInPriority(md)
       /\ call.info = NoPlaybackInfo => ValidTiers(md) = {}
       /\ userPreferredQuality = call.storedBefore

\* C3: a record in which no tier has a valid URL yields NotAvailable for every
\* preference value, null included.
C3_NoValidTierNotAvailable ==
    (call.op = "select" /\ call.done /\ ValidTiers(call.movieData) = {})
    => call.info = NoPlaybackInfo

\* C3 witness: a record whose three tiers are all unusable, one of them a
\* string containing 'not found', selected with a stored preference.
C3_Witness ==
    /\ call.op = "select" /\ call.done
    /\ "video" \in DOMAIN call.movieData
    /\ ValidTiers(call.movieData) = {}
    /\ call.movieData.video.midVideo = "x not found.m3u8"
    /\ call.preferredQuality = "mid"
    /\ call.info = NoPlaybackInfo

(* ---- Claims on the continue-watching store ---- *)

StoredItems == getContinueWatchingList(continuewatching)

StoredIds == {StoredItems[i].movieId : i \in 1..Len(StoredItems)}

UpsertRank(id) == CHOOSE i \in 1..Len(upsertOrder) : upsertOrder[i] = id

\* C6: the list is most-recent-first: its entries are in decreasing order of
\* the time of their last upsert, so the record upserted last is first.
C6_MostRecentFirst ==
    \A i, j \in 1..Len(StoredItems) :
        i < j => UpsertRank(StoredItems[i].movieId) < UpsertRank(StoredItems[j].movieId)

(* ---- Claims on the session ---- *)

\* C4: across the events of a session the stored quality preference changes
\* only in the step in which a quality chosen by a click has been switched to
\* successfully, and after every such step it is exactly the chosen quality;
\* start-up, fallbacks, episode switches and position samples leave it alone.
C4_PreferenceOnlyByChoice ==
    [][/\ userPreferredQuality' # userPreferredQuality
            => call'.op = "switchQualityResolved"
       /\ call'.op = "switchQualityResolved"
            => userPreferredQuality' = call'.chosenQuality]_vars

\* C4 witness: a click on low was switched to successfully while another
\* preference (or none) was stored, and low is the stored preference now.
C4_Witness ==
    /\ call.op = "switchQualityResolved"
    /\ call.chosenQuality = "low"
    /\ call.storedBefore # "low"
    /\ userPreferredQuality = "low"

\* C7: no stored continue-watching record has renditions, whether read as the
\* list or looked up by id, while the record of the session that was handed to
\* the saves still has the renditions the backend delivered for it.
C7_NoRenditionsPersisted ==
    /\ \A i \in 1..Len(StoredItems) : "video" \notin DOMAIN StoredItems[i]
    /\ \A id \in StoredIds : "video" \notin DOMAIN getSavedEpisode(continuewatching, id)
    /\ phase \in {"constructed", "ready"}
         => /\ "video" \in DOMAIN currentMovieData
            /\ \E i \in 1..Len(seriesData) :
                  /\ seriesData[i].episodeId = currentMovieData.episodeId
                  /\ seriesData[i].video = currentMovieData.video

\* C7 witness: the session started from a saved episode (merge and save), a
\* position sample then saved its progress; the stored record carries that
\* progress and no renditions, the session's record has both.
C7_Witness ==
    /\ call.op = "timeupdate"
    /\ currentIndex = 0
    /\ currentMovieData.continueWatching = Progress(60, 60)
    /\ currentMovieData.video = NoHdVideo
    /\ LET savedEpisode == getSavedEpisode(continuewatching, currentMovieData.movieId) IN
       /\ savedEpisode # NoEpisode
       /\ savedEpisode.continueWatching = Progress(60, 60)
       /\ "video" \notin DOMAIN savedEpisode

\* The step is a switchToEpisode that found no URL for a record that is not
\* locked: the notice is shown and art.switchUrl is not called.
FailedEpisodeSwitch ==
    /\ call' # call
    /\ call'.op = "switchToEpisode"
    /\ ~call'.threw
    /\ call'.url = NULL
    /\ ~lockOverlayShown_'

\* C18: an episode switch that fails, because the target record has no valid
\* rendition and is not locked, leaves the session state as it was: the
\* active record, the active quality, the ad flags and the store are those
\* of the episode that keeps playing.
C18_FailedSwitchChangesNothing ==
    [][FailedEpisodeSwitch
         => /\ currentMovieData' = currentMovieData
            /\ activeQuality' = activeQuality
            /\ preAdShown' = preAdShown
            /\ midAdShown' = midAdShown
            /\ postAdShown' = postAdShown
            /\ continuewatching' = continuewatching]_vars

\* C19: whenever a URL has been handed to the player (to the constructor, to
\* art.switchUrl, to art.switchQuality), the type the player was given is the
\* type inferred from that URL.
C19_DeclaredTypeIsInferredType ==
    (call.op \in {"fetchResolved", "switchToEpisode", "qualityClick"} /\ Truthy(call.url))
        => artType = inferVideoType(revision, call.url)

\* C23: a click on a quality whose URL is not valid for the active record
\* hands no URL to art.switchQuality: playback is not switched to the URL of
\* another quality.
C23_InvalidChoiceSwitchesNothing ==
    (call.op = "qualityClick" /\ ~IsValidUrl(currentMovieData.video[UrlKey(call.chosenQuality)]))
        => ~Truthy(call.url)

\* The fetch has just resolved with an active record that is not locked and
\* has no valid rendition.
StartWithoutRendition ==
    /\ call.op = "fetchResolved"
    /\ ValidTiers(currentMovieData) = {}
    /\ ~currentMovieData.locked

\* C24: when the session starts on a record that is not locked and has no
\* valid rendition, the start is blocked and no player is constructed; and
\* a blocked session takes no further step: no sample, no save, no countdown.
C24_NoRenditionBlocksStart ==
    /\ [](StartWithoutRendition => (phase = "blocked" /\ artType = NULL))
    /\ [][phase = "blocked" => vars' = vars]_vars

\* C24 witness: the stored episode 3, which has no rendition, was picked up
\* as the active record, and the start is blocked.
C24_Witness ==
    /\ StartWithoutRendition
    /\ phase = "blocked"
    /\ currentMovieData.episodeId = 3
    /\ currentMovieData.video = NoVideo

(* ---- Claims on the save throttle ---- *)

\* The step is a position sample taken no more than 7 seconds after the last
\* save of the handler (lastSaveTime is the time of that save).
SampleWithinInterval ==
    /\ call'.op = "timeupdate"
    /\ now - lastSaveTime <= SaveInterval

\* The step is a position sample in which the handler saved.
SampleSaved ==
    /\ call'.op = "timeupdate"
    /\ lastSaveTime' # lastSaveTime

\* C22 as stated: the handler saves only when more than 7 seconds have passed
\* since its last save, and a sample within the 7 seconds neither changes
\* the progress of the active record nor writes the store.
C22_AsStated ==
    [][/\ SampleSaved => now - lastSaveTime > SaveInterval
       /\ SampleWithinInterval
            => /\ currentMovieData'.continueWatching = currentMovieData.continueWatching
               /\ continuewatching' = continuewatching]_vars

\* C22 amended: the handler saves only when more than 7 seconds have passed
\* since its last save, and a sample within the 7 seconds neither changes
\* the progress of the active record nor saves it: the store is left as it
\* is, or loses the record of the active film, whose removal is not
\* throttled.
C22_SavesSevenSecondsApart ==
    [][/\ SampleSaved => now - lastSaveTime > SaveInterval
       /\ SampleWithinInterval
            => /\ currentMovieData'.continueWatching = currentMovieData.continueWatching
               /\ \/ continuewatching' = continuewatching
                  \/ continuewatching' =
                        removeEpisodeProgress(continuewatching, currentMovieData.movieId)]_vars

\* C22 witness: the film was saved at second 60; exactly 7 seconds later a
\* sample at second 85 has been handled, which removed the film from the
\* store and left the recorded progress at second 60.
C22_Witness ==
    /\ call.op = "timeupdate"
    /\ now - lastSaveTime = SaveInterval
    /\ movieRemoved
    /\ currentMovieData.continueWatching = Progress(60, 60)
    /\ StoredItems = <<>>

(* ---- Claims on cleanupCompletedMovies ---- *)

WatchedSeconds(item) ==
    IF "inMinutes" \in DOMAIN item.continueWatching THEN item.continueWatching.inMinutes ELSE 0

HasProgressData(item) ==
    "continueWatching" \in DOMAIN item /\ "inPercentage" \in DOMAIN item.continueWatching

\* The end offset is defined: the record has a time.endTime that is a number.
EndOffsetDefined(item) ==
    "time" \in DOMAIN item /\ item.time.endTime # "" /\ parseInt(item.time.endTime) >= 0

FinishedAsStated(item) ==
    /\ HasProgressData(item)
    /\ \/ item.continueWatching.inPercentage > 90
       \/ EndOffsetDefined(item) /\ WatchedSeconds(item) > parseInt(item.time.endTime)

FinishedNonZeroOffset(item) ==
    /\ HasProgressData(item)
    /\ \/ item.continueWatching.inPercentage > 90
       \/ /\ EndOffsetDefined(item) /\ parseInt(item.time.endTime) # 0
          /\ WatchedSeconds(item) > parseInt(item.time.endTime)

\* C21: a record leaves the stored list in a step of the session only if
\* it is finished: the stored record, or the active record as the step leaves
\* it, has a watched percentage above 90 or watched seconds above its end
\* offset.
C21_RemovedOnlyWhenFinished ==
    [][\A id \in StoredIds :
          id \notin StoredIds'
            => \/ FinishedAsStated(getSavedEpisode(continuewatching, id))
               \/ /\ currentMovieData'.movieId = id
                  /\ FinishedAsStated(currentMovieData')]_vars

\* C29: once the position-sample handler has removed the active film as
\* finished (movieRemoved), no later sample puts its record back into the
\* persisted list.
C29_RemovedStaysRemoved ==
    [][(/\ movieRemoved
        /\ call'.op = "timeupdate"
        /\ currentMovieData.movieId \notin StoredIds)
       => currentMovieData'.movieId \notin StoredIds']_vars

\* C28: no two entries of the persisted list share an id, whatever sequence
\* of upsert, remove and cleanup is applied to a list with unique ids; an
\* upsert of an id the list already holds replaces that entry in place and
\* leaves the length of the list as it was.
C28_UniqueIds ==
    /\ \A i, j \in 1..Len(StoredItems) :
          StoredItems[i].movieId = StoredItems[j].movieId => i = j
    /\ (call.op = "upsert"
            /\ findIndex(getContinueWatchingList(call.before), call.episodeData.movieId) > 0)
         => LET before == getContinueWatchingList(call.before)
                at == findIndex(before, call.episodeData.movieId)
            IN  /\ Len(StoredItems) = Len(before)
                /\ StoredItems[at] = dataToStore(call.episodeData)
                /\ \A i \in 1..Len(before) : i # at => StoredItems[i] = before[i]

\* An upsert of an id the list holds has replaced a record of other progress,
\* after another operation on the list.
C28_Witness ==
    /\ call.op = "upsert"
    /\ steps > 1
    /\ findIndex(getContinueWatchingList(call.before), call.episodeData.movieId) > 0
    /\ continuewatching # call.before
    /\ Len(StoredItems) > 1

SameButProgress(merged, fresh) ==
    /\ (DOMAIN merged) \ {"continueWatching"} = (DOMAIN fresh) \ {"continueWatching"}
    /\ \A f \in (DOMAIN fresh) \ {"continueWatching"} : merged[f] = fresh[f]

SavedProgressOrZero(saved) ==
    IF saved # NoEpisode /\ "continueWatching" \in DOMAIN saved
    THEN saved.continueWatching
    ELSE [inMinutes |-> 0, inPercentage |-> 0]

\* C9 as stated: the merge equals fresh in every field except progress, which
\* is saved's progress when saved has one and a zeroed progress when saved is
\* absent or has none.
C9_AsStated ==
    (call.op = "merge" /\ call.done)
    => /\ SameButProgress(call.merged, call.fresh)
       /\ "continueWatching" \in DOMAIN call.merged
       /\ call.merged.continueWatching = SavedProgressOrZero(call.saved)

\* C9 amended: when saved is absent the merge is fresh itself, its progress
\* included; otherwise it equals fresh in every field except progress, which
\* is saved's progress when saved has one and a zeroed progress when not.
C9_MergeKeepsSavedProgress ==
    (call.op = "merge" /\ call.done)
    => IF call.saved = NoEpisode THEN call.merged = call.fresh
       ELSE /\ SameButProgress(call.merged, call.fresh)
            /\ "continueWatching" \in DOMAIN call.merged
            /\ call.merged.continueWatching = SavedProgressOrZero(call.saved)

\* C9 witness: saved at 30 s / 40 percent merged with a fresh record at zero:
\* the result has the saved progress, the fresh video and the fresh lock flag.
C9_Witness ==
    /\ call.op = "merge" /\ call.done
    /\ call.saved # NoEpisode /\ "continueWatching" \in DOMAIN call.saved
    /\ call.saved.continueWatching = [inMinutes |-> 30, inPercentage |-> 40]
    /\ "continueWatching" \in DOMAIN call.fresh
    /\ call.fresh.continueWatching = [inMinutes |-> 0, inPercentage |-> 0]
    /\ call.fresh.locked # call.saved.locked
    /\ call.merged.continueWatching = [inMinutes |-> 30, inPercentage |-> 40]
    /\ call.merged.video = call.fresh.video
    /\ call.merged.locked = call.fresh.locked

(* ---- Claims on getCurrentAdRegion ---- *)

\* lo <= percent < hi and lo <= percent <= hi, false for NaN.
InHalfOpen(p, lo, hi) == p # NaN /\ lo * PercentScale <= p /\ p < hi * PercentScale
InClosed(p, lo, hi) == p # NaN /\ lo * PercentScale <= p /\ p <= hi * PercentScale

\* C10: the region is PreRoll exactly for 19 <= percent < 49, MidRoll exactly
\* for 55 <= percent <= 75, PostRoll exactly for 81 <= percent <= 100, and
\* none for every other percent; no percent lies in two regions.
C10_RegionBounds ==
    (call.op = "region" /\ call.done)
    => LET p == call.percentage IN
       /\ call.region = "preLoll" <=> InHalfOpen(p, 19, 49)
       /\ call.region = "midLoll" <=> InClosed(p, 55, 75)
       /\ call.region = "postLoll" <=> InClosed(p, 81, 100)
       /\ call.region = NoRegion
            <=> ~(InHalfOpen(p, 19, 49) \/ InClosed(p, 55, 75) \/ InClosed(p, 81, 100))
       /\ ~(InHalfOpen(p, 19, 49) /\ InClosed(p, 55, 75))
       /\ ~(InClosed(p, 55, 75) /\ InClosed(p, 81, 100))
       /\ ~(InHalfOpen(p, 19, 49) /\ InClosed(p, 81, 100))

\* C10 witness: the last percentage below 49 is still PreRoll.
C10_Witness ==
    /\ call.op = "region" /\ call.done
    /\ call.percentage = 49 * PercentScale - 1
    /\ call.region = "preLoll"

====
